---- MODULE Spec2Model ----
(***************************************************************************)
(* Model of the text-to-speech reader (jinhnil/tts).                       *)
(*                                                                         *)
(* The Reader component (src/unnamed/part_003, the revision of             *)
(* src/components/Reader.tsx that carries the progress timer, the          *)
(* settings form and the pagination state) is modelled as a state machine: *)
(* one action per event handler or backend callback.  Every action is the  *)
(* whole handler followed by the React render and the effects whose        *)
(* dependencies changed, repeated until no effect changes state (Settle).  *)
(*                                                                         *)
(* The speech backend is window.speechSynthesis as used by                 *)
(* src/services/webSpeechService.ts: a global utterance queue whose head   *)
(* is being spoken, a paused flag, and a queue of events (end / error)     *)
(* that the engine has raised and the page has not dispatched yet.         *)
(*                                                                         *)
(* A chunk's text is represented by the sequence of the sentence numbers   *)
(* it is made of; the document is the sentence sequence 1..numSentences.   *)
(***************************************************************************)
EXTENDS Integers, Sequences, FiniteSets, TLC

\* JavaScript's NaN, Infinity and -Infinity, encoded as integers no index reaches
NaN == 999999
PosInf == 1000000
NegInf == -1000000

(***************************************************************************)
(* Bounds of the model                                                     *)
(***************************************************************************)
MaxSentences == 3
MaxEvents == 1
MaxSessions == 1

\* sentence counts of the documents explored (0 = empty file content)
DocSizes == {0, MaxSentences}
\* initialChunkIndex values handed to the Reader by the stored progress
InitialIndexes == {0, 9}
\* sentencesPerChunk of the stored settings handed to the Reader
InitialSizes == {2}
\* values typed into the "sentences per chunk" number input
TypedSizes == {0, 1, 200, 201}
\* values of parseInt(jumpTarget); NaN stands for an empty or non-numeric text
Rates == {1, 2}
Volumes == {100}
Voices == {"vi"}
JumpTargets == {NaN, 0, 1, 2, 5}
\* sizes the minus / plus buttons of the form are followed to
MaxSize == 2
ExploredSizes == (0..MaxSize) \cup {200, 201}
Offsets == {-1, 1}
ViewModes == {"continuous", "paginated"}
ErrorKinds == {"interrupted", "canceled", "synthesis-failed"}

(***************************************************************************)
(* JavaScript numbers: the integers plus NaN and the two infinities, which *)
(* Math.floor(x / 0) produces in handleSaveSettings.                       *)
(***************************************************************************)

IsNaN(x) == x = NaN
IsFinite(x) == x # NaN /\ x # PosInf /\ x # NegInf

\* a < b, a >= b, ... : every comparison with NaN is false
JsLT(a, b) == ~IsNaN(a) /\ ~IsNaN(b) /\ a < b
JsGE(a, b) == ~IsNaN(a) /\ ~IsNaN(b) /\ a >= b
JsGT(a, b) == ~IsNaN(a) /\ ~IsNaN(b) /\ a > b
JsLE(a, b) == ~IsNaN(a) /\ ~IsNaN(b) /\ a <= b

\* a + b for a finite b
JsAdd(a, b) == IF IsFinite(a) THEN a + b ELSE a

\* a * b
JsMul(a, b) ==
  IF IsNaN(a) \/ IsNaN(b) THEN NaN
  ELSE IF IsFinite(a) /\ IsFinite(b) THEN a * b
  ELSE IF a = 0 \/ b = 0 THEN NaN
  ELSE IF (a > 0) = (b > 0) THEN PosInf ELSE NegInf

\* Math.floor(a / b)
JsFloorDiv(a, b) ==
  IF IsNaN(a) \/ IsNaN(b) THEN NaN
  ELSE IF ~IsFinite(a) /\ ~IsFinite(b) THEN NaN
  ELSE IF ~IsFinite(b) THEN (IF a >= 0 THEN 0 ELSE -1)
  ELSE IF b = 0 THEN (IF a = 0 THEN NaN ELSE IF a > 0 THEN PosInf ELSE NegInf)
  ELSE IF ~IsFinite(a) THEN (IF (a > 0) = (b > 0) THEN PosInf ELSE NegInf)
  ELSE IF b > 0 THEN a \div b
  ELSE (0 - a) \div (0 - b)

\* Math.max(a, b), Math.min(a, b): NaN if either argument is NaN
JsMax(a, b) == IF IsNaN(a) \/ IsNaN(b) THEN NaN ELSE IF a >= b THEN a ELSE b
JsMin(a, b) == IF IsNaN(a) \/ IsNaN(b) THEN NaN ELSE IF a <= b THEN a ELSE b

(***************************************************************************)
(* Segmentation: the grouping loop of splitTextIntoChunks over a document  *)
(* of n sentences.  The loop appends the sentences in order and flushes a  *)
(* chunk when sentenceCount >= sentencesPerChunk, so a size below 1        *)
(* flushes after every sentence, and what is left after the last sentence  *)
(* is flushed as the last chunk: chunk k holds the sentences               *)
(* (k - 1) * s + 1 .. k * s, the last chunk those up to n.                 *)
(***************************************************************************)
splitTextIntoChunks(n, size) ==
  LET s == IF size < 1 THEN 1 ELSE size
      count == (n + s - 1) \div s
  IN [k \in 1..count |->
        [j \in 1..(IF k * s <= n THEN s ELSE n - (k - 1) * s) |-> (k - 1) * s + j]]

\* chunks.slice(start, end) as the set of chunk ids (0-based) it contains:
\* NaN counts as 0, a negative bound counts from the end, both are capped
SliceBound(x, len) ==
  IF IsNaN(x) THEN 0
  ELSE IF x < 0 THEN (IF len + x < 0 THEN 0 ELSE len + x)
  ELSE IF x > len THEN len ELSE x

SliceIds(start, end, len) ==
  {i \in 0..(len - 1) : SliceBound(start, len) <= i /\ i < SliceBound(end, len)}

(***************************************************************************)
(* Segmentation of a text: splitTextIntoChunks character by character.  A  *)
(* text is a sequence of one-character strings, a chunk is a record of its *)
(* id and its text.                                                        *)
(***************************************************************************)
Whitespace == {" ", "\n"}

\* variant: only the leading whitespace is removed
Trim_KeepsTrailing(str) ==
  IF \A i \in 1..Len(str) : str[i] \in Whitespace THEN <<>>
  ELSE SubSeq(str, CHOOSE i \in 1..Len(str) :
                      /\ str[i] \notin Whitespace
                      /\ \A j \in 1..(i - 1) : str[j] \in Whitespace,
              Len(str))

\* String.prototype.trim
RECURSIVE Trim(_)
Trim(str) ==
  IF str = <<>> THEN <<>>
  ELSE IF Head(str) \in Whitespace THEN Trim(Tail(str))
  ELSE IF str[Len(str)] \in Whitespace THEN Trim(SubSeq(str, 1, Len(str) - 1))
  ELSE str

\* variant: a dot is a delimiter unless the next character is a dot
IsDelimiter_IgnoresPrev(text, i) ==
  \/ text[i] \in {"!", "?", "\n"}
  \/ /\ text[i] = "."
     /\ ~(i < Len(text) /\ text[i + 1] = ".")

\* isDelimiter for the character at position i (1-based)
IsDelimiter(text, i) ==
  \/ text[i] \in {"!", "?", "\n"}
  \/ /\ text[i] = "."
     /\ ~(i < Len(text) /\ text[i + 1] = ".")
     /\ ~(i > 1 /\ text[i - 1] = ".")

\* the scan loop: st holds the sentences pushed so far, the buffer, and the
\* positions whose character ended a sentence
RECURSIVE ScanLoop(_, _, _)
ScanLoop(text, i, st) ==
  IF i > Len(text) THEN st
  ELSE LET buffer == Append(st.buffer, text[i])
       IN IF IsDelimiter(text, i) /\ Len(Trim(buffer)) >= 3
            THEN ScanLoop(text, i + 1,
                          [sentences |-> Append(st.sentences, Trim(buffer)),
                           buffer |-> <<>>,
                           cuts |-> st.cuts \cup {i}])
            ELSE ScanLoop(text, i + 1, [st EXCEPT !.buffer = buffer])

Scan(text) == ScanLoop(text, 1, [sentences |-> <<>>, buffer |-> <<>>, cuts |-> {}])

\* variant: the text left in the buffer is always a sentence of its own
FlushRemainder_AlwaysPush(sentences, buffer) ==
  IF Len(Trim(buffer)) > 0 THEN Append(sentences, Trim(buffer)) ELSE sentences

\* variant: a remainder too short to be a sentence is discarded
FlushRemainder_DropsShort(sentences, buffer) ==
  IF Len(Trim(buffer)) >= 3 \/ (Len(Trim(buffer)) > 0 /\ Len(sentences) = 0)
    THEN Append(sentences, Trim(buffer))
    ELSE sentences

\* the text left in the buffer after the scan
FlushRemainder(sentences, buffer) ==
  IF Len(Trim(buffer)) > 0
    THEN IF Len(Trim(buffer)) < 3 /\ Len(sentences) > 0
           THEN [sentences EXCEPT ![Len(sentences)] = @ \o <<" ">> \o Trim(buffer)]
           ELSE Append(sentences, Trim(buffer))
    ELSE sentences

\* fallback: no sentence formed but the text is not blank
Fallback(sentences, text) ==
  IF Len(sentences) = 0 /\ Len(Trim(text)) > 0
    THEN Append(sentences, Trim(text))
    ELSE sentences

\* the sentences before grouping
Sentences(text) ==
  LET st == Scan(text)
  IN Fallback(FlushRemainder(st.sentences, st.buffer), text)

\* variant: sentences are concatenated without a separator
AddSentence_NoSpace(currentChunkText, sentence) == currentChunkText \o sentence

\* currentChunkText += (currentChunkText.length > 0 ? ' ' : '') + sentence
AddSentence(currentChunkText, sentence) ==
  currentChunkText \o (IF Len(currentChunkText) > 0 THEN <<" ">> ELSE <<>>) \o sentence

\* variant: the id is incremented before it is used
PushChunk_IdFromOne(chunkList, currentChunkText) ==
  Append(chunkList, [id |-> Len(chunkList) + 1, text |-> currentChunkText])

\* chunks.push({ id: chunkId++, text: currentChunkText }): chunkId counts the
\* chunks pushed
PushChunk(chunkList, currentChunkText) ==
  Append(chunkList, [id |-> Len(chunkList), text |-> currentChunkText])

RECURSIVE GroupSentences(_, _, _, _, _, _)
GroupSentences(sentences, sentencesPerChunk, i, currentChunkText, sentenceCount, chunkList) ==
  IF i > Len(sentences)
    THEN IF Len(currentChunkText) > 0
           THEN PushChunk(chunkList, currentChunkText)
           ELSE chunkList
    ELSE LET t == AddSentence(currentChunkText, sentences[i])
         IN IF JsGE(sentenceCount + 1, sentencesPerChunk)
              THEN GroupSentences(sentences, sentencesPerChunk, i + 1, <<>>, 0,
                                  PushChunk(chunkList, t))
              ELSE GroupSentences(sentences, sentencesPerChunk, i + 1, t,
                                  sentenceCount + 1, chunkList)

\* variant: the empty text is scanned like any other, and the fallback does
\* not look at what is left of the text after trimming
segment_FallbackOnEmpty(text, sentencesPerChunk) ==
  GroupSentences(IF Sentences(text) = <<>> THEN <<Trim(text)>> ELSE Sentences(text),
                 sentencesPerChunk, 1, <<>>, 0, <<>>)

\* splitTextIntoChunks(text, sentencesPerChunk)
segment(text, sentencesPerChunk) ==
  IF text = <<>> THEN <<>>
  ELSE GroupSentences(Sentences(text), sentencesPerChunk, 1, <<>>, 0, <<>>)

(***************************************************************************)
(* State                                                                   *)
(***************************************************************************)
VARIABLES
  gen,               \* one generateSpeech call and the API under it
  speech,            \* one speakWebSpeech call on a text and the engine under it
  segInput,          \* the arguments splitTextIntoChunks is called with
  segOutput,         \* what the calls made so far have returned
  numSentences,      \* sentences of file.content (fixed while the Reader is mounted)
  chunks,            \* useState<Chunk[]>: sequence of chunk texts
  currentChunkIndex, \* useState(initialChunkIndex)
  readerState,       \* useState<ReaderState>
  settings,          \* useState<ReaderSettings>
  tempSettings,      \* useState<ReaderSettings>: the settings form
  showSettings,      \* useState(false)
  errorMsg,          \* useState<string | null>
  chunkProgress,     \* useState<number>
  visibleRange,      \* useState({start, end})
  currentPage,       \* useState(floor(initialChunkIndex / 50))
  progressInterval,  \* useRef: id of the referenced interval, 0 for null
  isSettingUpdate,   \* useRef<boolean>
  activeTimers,      \* intervals running in the page: set of [id, step, text]
  synthQueue,        \* window.speechSynthesis: utterances queued, head is spoken
  synthPaused,       \* window.speechSynthesis.paused
  eventQueue,        \* utterance events raised by the engine, not yet dispatched
  savedProgress,     \* last (chunkIndex, settings) handed to onSaveProgress
  sessions,          \* settings forms saved so far
  mounted,           \* App renders the Reader (selectedFile is not null)
  container,         \* the list element: heights of its content, scrollTop
  previousScrollHeight, \* useRef(0)
  isPrepending,      \* useRef(false)
  log                \* what the last handler did (calls to the backend, saves)

vars == <<gen, speech, segInput, segOutput, numSentences, chunks, currentChunkIndex, readerState, settings,
          tempSettings, showSettings, errorMsg, chunkProgress, visibleRange,
          currentPage, progressInterval, isSettingUpdate, activeTimers,
          synthQueue, synthPaused, eventQueue, savedProgress, sessions,
          mounted, container, previousScrollHeight, isPrepending, log>>

ITEMS_PER_PAGE == 50

NoError == "null"

\* the whole state as one record, on which the handlers are written
World ==
  [numSentences |-> numSentences, chunks |-> chunks,
   currentChunkIndex |-> currentChunkIndex, readerState |-> readerState,
   settings |-> settings, tempSettings |-> tempSettings,
   showSettings |-> showSettings, errorMsg |-> errorMsg,
   chunkProgress |-> chunkProgress, visibleRange |-> visibleRange,
   currentPage |-> currentPage, progressInterval |-> progressInterval,
   isSettingUpdate |-> isSettingUpdate, activeTimers |-> activeTimers,
   synthQueue |-> synthQueue, synthPaused |-> synthPaused,
   eventQueue |-> eventQueue, savedProgress |-> savedProgress,
   sessions |-> sessions, mounted |-> mounted, container |-> container,
   previousScrollHeight |-> previousScrollHeight,
   isPrepending |-> isPrepending, log |-> log]

Commit(w) ==
  /\ numSentences' = w.numSentences
  /\ chunks' = w.chunks
  /\ currentChunkIndex' = w.currentChunkIndex
  /\ readerState' = w.readerState
  /\ settings' = w.settings
  /\ tempSettings' = w.tempSettings
  /\ showSettings' = w.showSettings
  /\ errorMsg' = w.errorMsg
  /\ chunkProgress' = w.chunkProgress
  /\ visibleRange' = w.visibleRange
  /\ currentPage' = w.currentPage
  /\ progressInterval' = w.progressInterval
  /\ isSettingUpdate' = w.isSettingUpdate
  /\ activeTimers' = w.activeTimers
  /\ synthQueue' = w.synthQueue
  /\ synthPaused' = w.synthPaused
  /\ eventQueue' = w.eventQueue
  /\ savedProgress' = w.savedProgress
  /\ sessions' = w.sessions
  /\ mounted' = w.mounted
  /\ container' = w.container
  /\ previousScrollHeight' = w.previousScrollHeight
  /\ isPrepending' = w.isPrepending
  /\ log' = w.log
  /\ UNCHANGED <<segInput, segOutput, speech, gen>>

\* the record of the last step: the handler (op), its argument, the reader
\* state it started from, and what it called
EmptyLog(op, arg, from) ==
  [op |-> op, arg |-> arg, from |-> from, cancels |-> 0, speaks |-> 0,
   pauses |-> 0, resumes |-> 0, saves |-> 0, thrown |-> FALSE,
   timersStarted |-> 0]

BeginWith(w, op, arg) == [w EXCEPT !.log = EmptyLog(op, arg, w.readerState)]

Begin(w, op) == BeginWith(w, op, 0)

\* what a playChunk closure reads of the render that created it: chunks and
\* the three settings handed to speakWebSpeech
Closure(w) ==
  [chunks |-> w.chunks, playbackRate |-> w.settings.playbackRate,
   volume |-> w.settings.volume, webSpeechVoiceURI |-> w.settings.webSpeechVoiceURI]

(***************************************************************************)
(* Speech backend (webSpeechService.ts over window.speechSynthesis)        *)
(***************************************************************************)
\* an event the engine raised: its kind, for an end event the request whose
\* onEnd it will call (the error callbacks read nothing of their request),
\* and whether cancel() was called after the event's request was issued
NoReq ==
  [index |-> 0, chunks |-> <<>>, text |-> <<>>, voiceURI |-> "", rate |-> 0,
   volume |-> 0, autoPlay |-> FALSE]

\* window.speechSynthesis.cancel(): the queue is emptied; the utterance that
\* was being spoken gets an error event of kind "interrupted"; the events
\* already raised stay queued
SynthCancel(w) ==
  LET marked == [i \in 1..Len(w.eventQueue) |->
                   [w.eventQueue[i] EXCEPT !.superseded = TRUE]]
  IN [w EXCEPT !.synthQueue = <<>>,
               !.eventQueue =
                  IF Len(w.synthQueue) > 0 /\ Len(w.eventQueue) < MaxEvents
                    THEN Append(marked, [kind |-> "interrupted", req |-> NoReq,
                                         superseded |-> TRUE])
                    ELSE marked,
               !.log.cancels = w.log.cancels + 1]

stopWebSpeech(w) == SynthCancel(w)

pauseWebSpeech(w) ==
  [w EXCEPT !.synthPaused = TRUE, !.log.pauses = w.log.pauses + 1]

resumeWebSpeech(w) ==
  [w EXCEPT !.synthPaused = FALSE, !.log.resumes = w.log.resumes + 1]

\* speakWebSpeech(text, voiceURI, rate, volume, onEnd, onError, shouldCancel):
\* req carries the text, the settings and what the two callbacks captured
speakWebSpeech(w, req, shouldCancel) ==
  LET w1 == IF shouldCancel THEN SynthCancel(w) ELSE w
  IN [w1 EXCEPT !.synthQueue = Append(w1.synthQueue, req),
                !.log.speaks = w1.log.speaks + 1]

(***************************************************************************)
(* Speech backend with subdivision: speakWebSpeech on a text of            *)
(* characters.  A text of 1000 characters or more is cut into sub-units    *)
(* that are handed to the engine one after the other, each from the onend  *)
(* of the one before.                                                      *)
(***************************************************************************)
MAX_CHUNK_LENGTH == 200

Punctuation == {".", "!", "?", ",", ";", ":"}

MaxOf(S) == CHOOSE x \in S : \A y \in S : y <= x

\* splitIndex for a remainingText longer than MAX_CHUNK_LENGTH: one past the
\* last punctuation mark whose index is below MAX_CHUNK_LENGTH, else one past
\* lastIndexOf(" ", MAX_CHUNK_LENGTH) when that is above 0, else
\* MAX_CHUNK_LENGTH (positions here are 1-based: index + 1)
SplitIndex(remainingText) ==
  LET marks == {i \in 1..MAX_CHUNK_LENGTH : remainingText[i] \in Punctuation}
      spaces == {i \in 2..(MAX_CHUNK_LENGTH + 1) : remainingText[i] = " "}
  IN IF marks # {} THEN MaxOf(marks)
     ELSE IF spaces # {} THEN MaxOf(spaces)
     ELSE MAX_CHUNK_LENGTH

\* while (remainingText.length > 0)
RECURSIVE SplitLoop(_, _)
SplitLoop(remainingText, units) ==
  IF Len(remainingText) = 0 THEN units
  ELSE IF Len(remainingText) <= MAX_CHUNK_LENGTH THEN Append(units, remainingText)
  ELSE LET splitIndex == SplitIndex(remainingText)
       IN SplitLoop(Trim(SubSeq(remainingText, splitIndex + 1, Len(remainingText))),
                    Append(units, SubSeq(remainingText, 1, splitIndex)))

\* the call has not been made: the text it will be made with
NoSpeech ==
  [text |-> <<>>, called |-> FALSE, units |-> <<>>, queue |-> <<>>,
   events |-> <<>>, handed |-> <<>>, finished |-> <<>>, onEndCalls |-> 0,
   onErrorCalls |-> 0, cancelled |-> FALSE]

\* window.speechSynthesis.speak(utterance): index is the sub-unit the
\* utterance speaks, -1 for the utterance of a text spoken directly
EngineSpeak(sp, index, text) ==
  [sp EXCEPT !.queue = Append(sp.queue, index),
             !.handed = Append(sp.handed, Len(text))]

\* window.speechSynthesis.cancel(): the utterances queued are dropped, the
\* one being spoken gets an "interrupted" error event; events already raised
\* stay to be dispatched
EngineCancel(sp) ==
  [sp EXCEPT !.queue = <<>>,
             !.events = IF Len(sp.queue) > 0
                          THEN Append(sp.events, [kind |-> "interrupted",
                                                  index |-> Head(sp.queue)])
                          ELSE sp.events,
             !.cancelled = sp.called]

\* speakNextChunk(index), index 0-based
speakNextChunk(sp, index) ==
  IF index >= Len(sp.units)
    THEN [sp EXCEPT !.onEndCalls = sp.onEndCalls + 1]
    ELSE EngineSpeak(sp, index, sp.units[index + 1])

\* speakWebSpeech(text, ..., shouldCancel) of the subdividing backend
speakWebSpeechText(sp, shouldCancel) ==
  LET sp1 == [(IF shouldCancel THEN EngineCancel(sp) ELSE sp) EXCEPT !.called = TRUE]
  IN IF Len(sp.text) < 1000
       THEN EngineSpeak(sp1, -1, sp.text)
       ELSE speakNextChunk([sp1 EXCEPT !.units = SplitLoop(sp.text, <<>>)], 0)

\* utterance.onend: onEnd for a text spoken directly, the next sub-unit
\* otherwise
UtteranceOnEndOf(sp, index) ==
  IF index = -1 THEN [sp EXCEPT !.onEndCalls = sp.onEndCalls + 1]
  ELSE speakNextChunk(sp, index + 1)

\* utterance.onerror
UtteranceOnErrorOf(sp, kind) ==
  IF kind = "canceled" \/ kind = "interrupted" THEN sp
  ELSE [sp EXCEPT !.onErrorCalls = sp.onErrorCalls + 1]

(***************************************************************************)
(* generateSpeech: the Gemini request with its retry loop.  A failure of   *)
(* an attempt is the error caught: its status (0 when it has none) and     *)
(* what its message contains.                                              *)
(***************************************************************************)
MAX_RETRIES == 3
INITIAL_DELAY_MS == 1000

RECURSIVE Pow2(_)
Pow2(n) == IF n = 0 THEN 1 ELSE 2 * Pow2(n - 1)

NoFailure == [status |-> 0, message |-> ""]

\* thrown inside the try block when the response carries no audio
NoAudio == [status |-> 0, message |-> "other"]

NoGen ==
  [apiKey |-> "", envKey |-> "", text |-> <<>>, pc |-> "idle", attempt |-> 0,
   calls |-> 0, delays |-> <<>>, lastError |-> NoFailure, thrown |-> NoFailure]

\* isRetryable
IsRetryable(error) ==
  \/ error.status = 503
  \/ error.status = 429
  \/ error.message \in {"503", "overloaded", "429"}

\* the entry of generateSpeech up to the first loop test
generateSpeech(g) ==
  IF g.apiKey = "" /\ g.envKey = ""
    THEN [g EXCEPT !.pc = "thrown", !.thrown = [status |-> 0, message |-> "no key"]]
  ELSE IF Len(Trim(g.text)) = 0
    THEN [g EXCEPT !.pc = "returned"]
  ELSE [g EXCEPT !.pc = "calling", !.calls = 1]

\* variant: a failure is retried whatever it is
OnFailure_RetriesAll(g, error) ==
  IF g.attempt < MAX_RETRIES - 1
    THEN [g EXCEPT !.lastError = error, !.pc = "waiting",
                   !.delays = Append(g.delays, INITIAL_DELAY_MS * Pow2(g.attempt))]
    ELSE [g EXCEPT !.lastError = error, !.pc = "thrown", !.thrown = error]

\* the catch block, and the throw after the loop when it breaks
OnFailure(g, error) ==
  IF IsRetryable(error) /\ g.attempt < MAX_RETRIES - 1
    THEN [g EXCEPT !.lastError = error, !.pc = "waiting",
                   !.delays = Append(g.delays, INITIAL_DELAY_MS * Pow2(g.attempt))]
    ELSE [g EXCEPT !.lastError = error, !.pc = "thrown", !.thrown = error]

\* await wait(delay) is over: attempt++, continue, and the loop test
AfterWait(g) ==
  IF g.attempt + 1 < MAX_RETRIES
    THEN [g EXCEPT !.attempt = g.attempt + 1, !.pc = "calling", !.calls = g.calls + 1]
    ELSE [g EXCEPT !.attempt = g.attempt + 1, !.pc = "thrown", !.thrown = g.lastError]

(***************************************************************************)
(* Reader: progress timer                                                  *)
(***************************************************************************)
SentenceChars == 3

\* chunks[index].text.length: the sentences joined by one space
TextLength(text) == Len(text) * SentenceChars + (Len(text) - 1)

\* step = (updateInterval / estimatedDurationMs) * 100, in whole percent
ProgressStep(text, rate) == (100 * 100 * rate) \div (TextLength(text) * 70)

\* variant: the reference is dropped and the interval keeps running
clearProgressInterval_KeepsInterval(w) == [w EXCEPT !.progressInterval = 0]

clearProgressInterval(w) ==
  IF w.progressInterval # 0
    THEN [w EXCEPT !.activeTimers = {t \in w.activeTimers : t.id # w.progressInterval},
                   !.progressInterval = 0]
    ELSE w

FreshTimerId(w) ==
  CHOOSE i \in 1..(Cardinality(w.activeTimers) + 1) :
    /\ \A t \in w.activeTimers : t.id # i
    /\ \A j \in 1..(i - 1) : \E t \in w.activeTimers : t.id = j

\* progressInterval.current = setInterval(...)
StartProgressInterval(w, text, rate) ==
  LET id == FreshTimerId(w)
  IN [w EXCEPT !.activeTimers = w.activeTimers \cup
                   {[id |-> id, step |-> ProgressStep(text, rate), text |-> text]},
               !.progressInterval = id,
               !.log.timersStarted = w.log.timersStarted + 1]

(***************************************************************************)
(* Reader: playback                                                        *)
(***************************************************************************)
\* playChunk(index, autoPlay) of the closure cl = [chunks, settings].
\* A NaN index passes the range guard (both comparisons are false) and the
\* read of chunks[index].text then throws after the state updates.
playChunk(w, cl, index, autoPlay) ==
  IF JsLT(index, 0) \/ JsGE(index, Len(cl.chunks)) THEN w
  ELSE
    LET w1 == IF ~autoPlay THEN stopWebSpeech(w) ELSE w
        w2 == clearProgressInterval(w1)
        w3 == [w2 EXCEPT !.errorMsg = NoError,
                         !.readerState = "PLAYING",
                         !.chunkProgress = 0]
    IN IF IsNaN(index) THEN [w3 EXCEPT !.log.thrown = TRUE]
       ELSE
         LET text == cl.chunks[index + 1]
             w4 == StartProgressInterval(w3, text, cl.playbackRate)
             req == [index |-> index, chunks |-> cl.chunks, text |-> text,
                     voiceURI |-> cl.webSpeechVoiceURI,
                     rate |-> cl.playbackRate,
                     volume |-> cl.volume,
                     autoPlay |-> autoPlay]
         IN speakWebSpeech(w4, req, ~autoPlay)

\* the onEnd callback handed to speakWebSpeech by playChunk: req.index and
\* req.chunks are the values the callback captured, prev + 1 is computed on
\* the current state, and the continuation is the same (captured) playChunk
OnEnd(w, req) ==
  LET w1 == [clearProgressInterval(w) EXCEPT !.chunkProgress = 100]
  IN IF req.index < Len(req.chunks) - 1
       THEN LET next == JsAdd(w1.currentChunkIndex, 1)
                w2 == playChunk(w1, [chunks |-> req.chunks, playbackRate |-> req.rate,
                                     volume |-> req.volume,
                                     webSpeechVoiceURI |-> req.voiceURI],
                                next, TRUE)
            IN [w2 EXCEPT !.currentChunkIndex = next]
       ELSE [w1 EXCEPT !.readerState = "IDLE"]

\* the onError callback handed to speakWebSpeech by playChunk
OnError(w, kind) ==
  [clearProgressInterval(w) EXCEPT !.errorMsg = kind, !.readerState = "IDLE"]

\* variant: only the "canceled" kind is recognised as a cancellation
UtteranceOnError_OnlyCanceled(w, kind) ==
  IF kind = "canceled" THEN w ELSE OnError(w, kind)

\* utterance.onerror of speakWebSpeech
UtteranceOnError(w, kind) ==
  IF kind = "canceled" \/ kind = "interrupted" THEN w ELSE OnError(w, kind)

\* variant: the pause branch is taken in every state but PAUSED
handlePlayPause_PauseUnlessPaused(w) ==
  IF w.readerState = "PAUSED"
    THEN [resumeWebSpeech(w) EXCEPT !.readerState = "PLAYING"]
    ELSE [pauseWebSpeech(w) EXCEPT !.readerState = "PAUSED"]

handlePlayPause(w) ==
  IF w.readerState = "PLAYING"
    THEN [pauseWebSpeech(w) EXCEPT !.readerState = "PAUSED"]
  ELSE IF w.readerState = "PAUSED"
    THEN [resumeWebSpeech(w) EXCEPT !.readerState = "PLAYING"]
  ELSE playChunk(w, Closure(w), w.currentChunkIndex, FALSE)

\* variant: the interval is left running
handleStop_KeepsTimer(w) ==
  [stopWebSpeech(w) EXCEPT !.readerState = "IDLE", !.chunkProgress = 0]

\* variant: the progress shown is not reset
handleStop_KeepsProgress(w) ==
  [clearProgressInterval(stopWebSpeech(w)) EXCEPT !.readerState = "IDLE"]

handleStop(w) ==
  [clearProgressInterval(stopWebSpeech(w)) EXCEPT !.readerState = "IDLE",
                                                  !.chunkProgress = 0]

handleNavigate(w, offset) ==
  LET next == JsMax(0, JsMin(Len(w.chunks) - 1, JsAdd(w.currentChunkIndex, offset)))
      w1 == [handleStop(w) EXCEPT !.currentChunkIndex = next]
  IN playChunk(w1, Closure(w), next, FALSE)

\* variant: the lower bound of the range check is off by one
handleJump_AcceptsZero(w, target) ==
  IF ~IsNaN(target) /\ target >= 0 /\ target <= Len(w.chunks)
    THEN LET w1 == [handleStop(w) EXCEPT !.currentChunkIndex = target - 1]
         IN playChunk(w1, Closure(w), target - 1, FALSE)
    ELSE w

\* target is parseInt(jumpTarget)
handleJump(w, target) ==
  IF ~IsNaN(target) /\ target > 0 /\ target <= Len(w.chunks)
    THEN LET w1 == [handleStop(w) EXCEPT !.currentChunkIndex = target - 1]
         IN playChunk(w1, Closure(w), target - 1, FALSE)
    ELSE w

\* variant: the index is not remapped to the new group size
changeChunkSize_KeepsIndex(w, delta) ==
  LET oldSize == w.settings.sentencesPerChunk
      newSize == JsMax(1, JsMin(200, oldSize + delta))
  IN IF newSize = oldSize THEN w
     ELSE [w EXCEPT !.settings.sentencesPerChunk = newSize]

\* changeChunkSize(delta): no control of this revision calls it; the
\* minus / plus buttons of src/components/Reader.tsx do
changeChunkSize(w, delta) ==
  LET oldSize == w.settings.sentencesPerChunk
      newSize == JsMax(1, JsMin(200, oldSize + delta))
      newIndex == JsFloorDiv(JsMul(w.currentChunkIndex, oldSize), newSize)
  IN IF newSize = oldSize THEN w
     ELSE [w EXCEPT !.settings.sentencesPerChunk = newSize,
                    !.currentChunkIndex = newIndex]

\* onClick of a rendered chunk
ChunkOnClick(w, id) ==
  LET w1 == [handleStop(w) EXCEPT !.currentChunkIndex = id]
  IN playChunk(w1, Closure(w), id, FALSE)

\* the chunk ids rendered in the main area
RenderedIds(w) ==
  IF w.settings.viewMode = "paginated"
    THEN SliceIds(JsMul(w.currentPage, ITEMS_PER_PAGE),
                  JsMul(JsAdd(w.currentPage, 1), ITEMS_PER_PAGE), Len(w.chunks))
    ELSE SliceIds(w.visibleRange.start, w.visibleRange.end, Len(w.chunks))

(***************************************************************************)
(* Reader: settings form                                                   *)
(***************************************************************************)
handleOpenSettings(w) ==
  [w EXCEPT !.tempSettings = w.settings, !.showSettings = TRUE]

handleSaveSettings(w) ==
  LET oldSize == w.settings.sentencesPerChunk
      newSize == w.tempSettings.sentencesPerChunk
      newIndex == JsFloorDiv(JsMul(w.currentChunkIndex, oldSize), newSize)
      w1 == IF newSize # oldSize
              THEN [w EXCEPT !.currentChunkIndex = newIndex] ELSE w
  IN [w1 EXCEPT !.settings = w.tempSettings, !.showSettings = FALSE]

\* the minus / plus buttons of the form
StepSize(size, delta) == JsMax(1, JsMin(200, size + delta))

\* onBlur of the size input: e.target.value shows tempSettings.sentencesPerChunk
BlurSize(size) == IF size < 1 THEN 1 ELSE IF size > 200 THEN 200 ELSE size

\* variant: a scroll near the top moves start whatever the bottom condition
\* is, and the end is reset to the chunk count
handleScroll_ResetsEnd(w, nearTop, nearBottom) ==
  IF nearTop /\ JsGT(w.visibleRange.start, 0)
    THEN [w EXCEPT !.visibleRange =
            [start |-> JsMax(0, JsAdd(w.visibleRange.start, -5)),
             end |-> Len(w.chunks)]]
    ELSE w

\* the list element where no layout is followed: nothing has a height
NoGeometry ==
  [chunkHeight |-> 0, indicatorHeight |-> 0, clientHeight |-> 0, scrollTop |-> 0]

\* scrollHeight of the list in continuous mode: the rendered chunks, and the
\* "... tai them ..." line rendered under them while end < chunks.length
ScrollHeight(w) ==
  Cardinality(SliceIds(w.visibleRange.start, w.visibleRange.end, Len(w.chunks)))
      * w.container.chunkHeight
    + (IF JsLT(w.visibleRange.end, Len(w.chunks))
         THEN w.container.indicatorHeight ELSE 0)

\* handleScroll: nearTop is scrollTop < 100, nearBottom is
\* scrollHeight - scrollTop - clientHeight < 100; both conditions read the
\* rendered range, both updates apply to the queued one
handleScroll(w, nearTop, nearBottom) ==
  LET w1 == IF nearTop /\ JsGT(w.visibleRange.start, 0)
              THEN [w EXCEPT !.previousScrollHeight = ScrollHeight(w),
                             !.isPrepending = TRUE,
                             !.visibleRange.start =
                               JsMax(0, JsAdd(w.visibleRange.start, -5))]
              ELSE w
  IN IF nearBottom /\ JsLT(w.visibleRange.end, Len(w.chunks))
       THEN [w1 EXCEPT !.visibleRange.end =
               JsMin(Len(w.chunks), JsAdd(w1.visibleRange.end, 5))]
       ELSE w1

handlePageChange(w, newPage) ==
  IF JsGE(newPage, 0) /\ JsLT(newPage, (Len(w.chunks) + ITEMS_PER_PAGE - 1) \div ITEMS_PER_PAGE)
    THEN [w EXCEPT !.currentPage = newPage] ELSE w

(***************************************************************************)
(* Reader: effects.  r is the render whose effects run (the closure the    *)
(* effects read), p the previous render (dependency comparison), w the     *)
(* state being built by the updates the effects queue.                     *)
(***************************************************************************)
SaveProgress(w, index, st) ==
  LET entry == [chunkIndex |-> index, settings |-> st]
  IN [w EXCEPT !.savedProgress = entry, !.log.saves = w.log.saves + 1]

\* variant: the page is the one of the chunk after the current one
PageEffect_NextChunk(w, p, r, mount) ==
  IF mount \/ r.currentChunkIndex # p.currentChunkIndex
    THEN [w EXCEPT !.currentPage =
            JsFloorDiv(JsAdd(r.currentChunkIndex, 1), ITEMS_PER_PAGE)]
    ELSE w

\* useEffect [currentChunkIndex, ITEMS_PER_PAGE]
PageEffect(w, p, r, mount) ==
  IF mount \/ r.currentChunkIndex # p.currentChunkIndex
    THEN [w EXCEPT !.currentPage = JsFloorDiv(r.currentChunkIndex, ITEMS_PER_PAGE)]
    ELSE w

\* variant: the chunks are replaced and the index is left as it is
ChunksEffect_NoClamp(w, p, r, mount) ==
  IF mount \/ r.settings.sentencesPerChunk # p.settings.sentencesPerChunk
    THEN [w EXCEPT !.chunks =
            splitTextIntoChunks(r.numSentences, r.settings.sentencesPerChunk)]
    ELSE w

\* useEffect [file.content, settings.sentencesPerChunk]
ChunksEffect(w, p, r, mount) ==
  IF mount \/ r.settings.sentencesPerChunk # p.settings.sentencesPerChunk
    THEN LET generatedChunks ==
               splitTextIntoChunks(r.numSentences, r.settings.sentencesPerChunk)
             w1 == [w EXCEPT !.chunks = generatedChunks]
         IN IF JsGE(r.currentChunkIndex, Len(generatedChunks))
              THEN [w1 EXCEPT !.currentChunkIndex = JsMax(0, Len(generatedChunks) - 1)]
              ELSE w1
    ELSE w

\* useEffect [currentChunkIndex, chunks.length]
ViewportEffect(w, p, r, mount) ==
  IF mount \/ r.currentChunkIndex # p.currentChunkIndex \/ Len(r.chunks) # Len(p.chunks)
    THEN [w EXCEPT !.visibleRange =
            [start |-> JsMax(0, JsAdd(r.currentChunkIndex, -5)),
             end |-> JsMin(Len(r.chunks), JsAdd(r.currentChunkIndex, 6))]]
    ELSE w

\* useEffect [settings.playbackRate, settings.volume, settings.webSpeechVoiceURI]
SettingsEffect(w, p, r, mount) ==
  IF \/ mount
     \/ r.settings.playbackRate # p.settings.playbackRate
     \/ r.settings.volume # p.settings.volume
     \/ r.settings.webSpeechVoiceURI # p.settings.webSpeechVoiceURI
    THEN LET w1 == IF r.readerState = "PLAYING"
                     THEN playChunk([w EXCEPT !.isSettingUpdate = TRUE],
                                    Closure(r), r.currentChunkIndex, FALSE)
                     ELSE w
         IN SaveProgress(w1, r.currentChunkIndex, r.settings)
    ELSE w

\* useEffect [currentChunkIndex]
IndexSaveEffect(w, p, r, mount) ==
  IF mount \/ r.currentChunkIndex # p.currentChunkIndex
    THEN [(IF ~w.isSettingUpdate
             THEN SaveProgress(w, r.currentChunkIndex, r.settings) ELSE w)
          EXCEPT !.isSettingUpdate = FALSE]
    ELSE w

\* useLayoutEffect [visibleRange.start]: scroll restoration
ScrollRestoreEffect(w, p, r, mount) ==
  IF mount \/ r.visibleRange.start # p.visibleRange.start
    THEN IF w.isPrepending
           THEN LET diff == ScrollHeight(r) - w.previousScrollHeight
                IN [w EXCEPT !.container.scrollTop =
                                 IF diff > 0 THEN w.container.scrollTop + diff
                                 ELSE w.container.scrollTop,
                             !.isPrepending = FALSE]
           ELSE w
    ELSE w

\* the effects of one commit: the layout effect, then the others in the
\* order the component declares them
RunEffects(p, r, mount) ==
  LET w0 == ScrollRestoreEffect(r, p, r, mount)
      w1 == PageEffect(w0, p, r, mount)
      w2 == ChunksEffect(w1, p, r, mount)
      w3 == ViewportEffect(w2, p, r, mount)
      w4 == SettingsEffect(w3, p, r, mount)
  IN IndexSaveEffect(w4, p, r, mount)

\* the fields React renders from: an update of one of them causes a render
RenderState(w) ==
  <<w.chunks, w.currentChunkIndex, w.readerState, w.settings, w.tempSettings,
    w.showSettings, w.errorMsg, w.chunkProgress, w.visibleRange, w.currentPage>>

\* render r (previous render p), run its effects, render again while the
\* effects change state
RECURSIVE Settle(_, _, _)
Settle(p, r, mount) ==
  LET w == RunEffects(p, r, mount)
  IN IF RenderState(w) = RenderState(r) THEN w ELSE Settle(r, w, FALSE)

\* a handler ran on the state World and left w: render and run the effects
AfterHandler(w) ==
  IF RenderState(w) = RenderState(World) THEN w ELSE Settle(World, w, FALSE)

(***************************************************************************)
(* Initial state: the Reader is constructed from the stored progress and   *)
(* mounted (every effect runs once, then the renders they cause).          *)
(***************************************************************************)
Constructed(n, initialChunkIndex, initialSettings) ==
  [numSentences |-> n, chunks |-> <<>>,
   currentChunkIndex |-> initialChunkIndex, readerState |-> "IDLE",
   settings |-> initialSettings, tempSettings |-> initialSettings,
   showSettings |-> FALSE, errorMsg |-> NoError, chunkProgress |-> 0,
   visibleRange |-> [start |-> 0, end |-> 0],
   currentPage |-> JsFloorDiv(initialChunkIndex, ITEMS_PER_PAGE),
   progressInterval |-> 0, isSettingUpdate |-> FALSE, activeTimers |-> {},
   synthQueue |-> <<>>, synthPaused |-> FALSE, eventQueue |-> <<>>,
   savedProgress |-> [chunkIndex |-> initialChunkIndex, settings |-> initialSettings],
   sessions |-> 0, mounted |-> TRUE, container |-> NoGeometry,
   previousScrollHeight |-> 0, isPrepending |-> FALSE,
   log |-> EmptyLog("mount", 0, "IDLE")]

Mounted(n, initialChunkIndex, initialSettings) ==
  LET c == Constructed(n, initialChunkIndex, initialSettings)
  IN Settle(c, c, TRUE)

NoSegInput == [text |-> <<>>, sentencesPerChunk |-> 1]

InstallReader(w) ==
  /\ numSentences = w.numSentences
  /\ chunks = w.chunks
  /\ currentChunkIndex = w.currentChunkIndex
  /\ readerState = w.readerState
  /\ settings = w.settings
  /\ tempSettings = w.tempSettings
  /\ showSettings = w.showSettings
  /\ errorMsg = w.errorMsg
  /\ chunkProgress = w.chunkProgress
  /\ visibleRange = w.visibleRange
  /\ currentPage = w.currentPage
  /\ progressInterval = w.progressInterval
  /\ isSettingUpdate = w.isSettingUpdate
  /\ activeTimers = w.activeTimers
  /\ synthQueue = w.synthQueue
  /\ synthPaused = w.synthPaused
  /\ eventQueue = w.eventQueue
  /\ savedProgress = w.savedProgress
  /\ sessions = w.sessions
  /\ mounted = w.mounted
  /\ container = w.container
  /\ previousScrollHeight = w.previousScrollHeight
  /\ isPrepending = w.isPrepending
  /\ log = w.log

\* no Reader is mounted
IdleReader ==
  InstallReader(Constructed(0, 0, [playbackRate |-> 1, volume |-> 100,
                                   webSpeechVoiceURI |-> "vi",
                                   sentencesPerChunk |-> 1,
                                   viewMode |-> "continuous"]))

readerVars ==
  <<numSentences, chunks, currentChunkIndex, readerState, settings,
    tempSettings, showSettings, errorMsg, chunkProgress, visibleRange,
    currentPage, progressInterval, isSettingUpdate, activeTimers, synthQueue,
    synthPaused, eventQueue, savedProgress, sessions, mounted, container,
    previousScrollHeight, isPrepending, log>>

\* splitTextIntoChunks is not called on a text of its own
IdleSeg ==
  /\ segInput = NoSegInput
  /\ segOutput = <<>>

\* speakWebSpeech is not called on a text of its own
IdleSpeech == speech = NoSpeech

\* generateSpeech is not called
IdleGen == gen = NoGen

Install(w) ==
  /\ InstallReader(w)
  /\ IdleSeg
  /\ IdleSpeech
  /\ IdleGen

Init ==
  \E n \in DocSizes, i \in InitialIndexes, size \in InitialSizes :
    Install(Mounted(n, i, [playbackRate |-> 1, volume |-> 100,
                           webSpeechVoiceURI |-> "vi",
                           sentencesPerChunk |-> size,
                           viewMode |-> "continuous"]))

(***************************************************************************)
(* Actions: user events                                                    *)
(***************************************************************************)
\* a handler or callback ran after the Reader was unmounted: the state
\* updates it queued are dropped, nothing renders and no effect runs
Detached(w) ==
  [w EXCEPT !.chunks = chunks, !.currentChunkIndex = currentChunkIndex,
            !.readerState = readerState, !.settings = settings,
            !.tempSettings = tempSettings, !.showSettings = showSettings,
            !.errorMsg = errorMsg, !.chunkProgress = chunkProgress,
            !.visibleRange = visibleRange, !.currentPage = currentPage]

Do(w) == Commit(IF mounted THEN AfterHandler(w) ELSE Detached(w))

\* App.handleBack: setSelectedFile(null), App renders the file list instead
\* of the Reader; the one cleanup the Reader registered is that of the
\* voiceschanged listener
handleBack(w) == [w EXCEPT !.mounted = FALSE]

\* the buttons exist while the Reader is rendered
PlayPause ==
  /\ mounted
  /\ Do(handlePlayPause(Begin(World, "playPause")))

Stop ==
  /\ mounted
  /\ Do(handleStop(Begin(World, "stop")))

\* the previous / next buttons are disabled at the two ends
Navigate ==
  \E offset \in Offsets :
    /\ mounted
    /\ offset = -1 => currentChunkIndex # 0
    /\ offset = 1 => ~JsGE(currentChunkIndex, Len(chunks) - 1)
    /\ Do(handleNavigate(BeginWith(World, "navigate", offset), offset))

Jump ==
  \E target \in JumpTargets :
    Do(handleJump(BeginWith(World, "jump", target), target))

ChunkClick ==
  \E id \in RenderedIds(World) :
    Do(ChunkOnClick(BeginWith(World, "chunkClick", id), id))

OpenSettings == Do(handleOpenSettings(Begin(World, "openSettings")))

CloseSettings ==
  /\ showSettings
  /\ Do([Begin(World, "closeSettings") EXCEPT !.showSettings = FALSE])

FormEdit ==
  /\ showSettings
  /\ \/ \E r \in Rates :
          Do([Begin(World, "formEdit") EXCEPT !.tempSettings.playbackRate = r])
     \/ \E v \in Volumes :
          Do([Begin(World, "formEdit") EXCEPT !.tempSettings.volume = v])
     \/ \E u \in Voices :
          Do([Begin(World, "formEdit") EXCEPT !.tempSettings.webSpeechVoiceURI = u])
     \/ \E m \in ViewModes :
          Do([Begin(World, "formEdit") EXCEPT !.tempSettings.viewMode = m])

FormSize ==
  /\ showSettings
  /\ \/ \E delta \in {-1, 1} :
          /\ StepSize(tempSettings.sentencesPerChunk, delta) \in ExploredSizes
          /\ Do([Begin(World, "formSize") EXCEPT !.tempSettings.sentencesPerChunk =
                   StepSize(tempSettings.sentencesPerChunk, delta)])
     \/ \E val \in TypedSizes :
          Do([Begin(World, "formSize") EXCEPT !.tempSettings.sentencesPerChunk = val])
     \/ Do([Begin(World, "formSize") EXCEPT !.tempSettings.sentencesPerChunk =
              BlurSize(tempSettings.sentencesPerChunk)])

SaveSettings ==
  /\ showSettings
  /\ Do(handleSaveSettings(Begin(World, "saveSettings")))

\* the page buttons are rendered in paginated mode when there are chunks
PageChange ==
  /\ settings.viewMode = "paginated"
  /\ Len(chunks) > 0
  /\ \E d \in {-1, 1} :
       /\ d = -1 => currentPage # 0
       /\ d = 1 => ~JsGE(currentPage, (Len(chunks) + ITEMS_PER_PAGE - 1) \div ITEMS_PER_PAGE - 1)
       /\ Do(handlePageChange(Begin(World, "pageChange"), JsAdd(currentPage, d)))

DismissError ==
  /\ errorMsg # NoError
  /\ Do([Begin(World, "dismissError") EXCEPT !.errorMsg = NoError])

(***************************************************************************)
(* Actions: speech engine and timer                                        *)
(***************************************************************************)
\* the engine finishes the utterance it is speaking and raises its end event
UtteranceEnd ==
  /\ Len(synthQueue) > 0
  /\ ~synthPaused
  /\ Len(eventQueue) < MaxEvents
  /\ Commit([Begin(World, "utteranceEnd") EXCEPT
               !.synthQueue = Tail(synthQueue),
               !.eventQueue = Append(eventQueue,
                                     [kind |-> "end", req |-> Head(synthQueue),
                                      superseded |-> FALSE])])

\* the engine fails on, or is interrupted in, the utterance it is speaking
UtteranceError ==
  /\ Len(synthQueue) > 0
  /\ Len(eventQueue) < MaxEvents
  /\ \E kind \in ErrorKinds :
       Commit([Begin(World, "utteranceError") EXCEPT
                 !.synthQueue = Tail(synthQueue),
                 !.eventQueue = Append(eventQueue,
                                       [kind |-> kind, req |-> NoReq,
                                        superseded |-> FALSE])])

\* the page dispatches the oldest raised event to utterance.onend / onerror
DeliverEvent ==
  /\ Len(eventQueue) > 0
  /\ LET ev == Head(eventQueue)
         w == [Begin(World, "deliver") EXCEPT !.eventQueue = Tail(eventQueue)]
     IN Do(IF ev.kind = "end" THEN OnEnd(w, ev.req)
           ELSE UtteranceOnError(w, ev.kind))

\* one tick of a running interval
Tick ==
  \E t \in activeTimers :
    Do([Begin(World, "tick") EXCEPT !.chunkProgress =
          IF chunkProgress >= 95 THEN chunkProgress
          ELSE IF chunkProgress + t.step > 95 THEN 95 ELSE chunkProgress + t.step])

(***************************************************************************)
(* The form handlers write tempSettings and showSettings only, and nothing *)
(* but handleSaveSettings (and the form itself) reads them.  A form        *)
(* session therefore commutes with every other event up to its save, and   *)
(* the playback specification takes it in one step: the form is opened,    *)
(* edited to one of the values it can hold, and saved.  SpecForm below     *)
(* follows the form handlers one by one.                                   *)
(***************************************************************************)
RECURSIVE SizeClosure(_)
SizeClosure(S) ==
  LET T == S \cup TypedSizes
             \cup ({StepSize(x, d) : x \in S, d \in {-1, 1}} \cap ExploredSizes)
             \cup {BlurSize(x) : x \in S}
  IN IF T = S THEN S ELSE SizeClosure(T)

\* the values the form opened on the settings st can hold when it is saved
FormValues(st) ==
  [playbackRate : Rates, volume : Volumes, webSpeechVoiceURI : Voices,
   sentencesPerChunk : SizeClosure({st.sentencesPerChunk}),
   viewMode : ViewModes]

SettingsSession ==
  /\ sessions < MaxSessions
  /\ \E temp \in FormValues(settings) :
       Do(handleSaveSettings([Begin(World, "saveSettings") EXCEPT
                                !.tempSettings = temp, !.showSettings = TRUE,
                                !.sessions = sessions + 1]))

Next ==
  \/ PlayPause
  \/ Stop
  \/ Navigate
  \/ Jump
  \/ ChunkClick
  \/ SettingsSession
  \/ PageChange
  \/ DismissError
  \/ UtteranceEnd
  \/ UtteranceError
  \/ DeliverEvent
  \/ Tick

Spec == Init /\ [][Next]_vars

\* the settings form alone, handler by handler
NextForm ==
  \/ OpenSettings
  \/ CloseSettings
  \/ FormEdit
  \/ FormSize
  \/ SaveSettings

SpecForm == Init /\ [][NextForm]_vars

(***************************************************************************)
(* changeChunkSize on its own: the Reader is mounted on a stored index and *)
(* group size, played or paused, and the group size is stepped.            *)
(***************************************************************************)
SizeStarts == {1, 2, 3, 199, 200}
SizeDeltas == {-2, -1, 0, 1, 2}

InitSize ==
  \E n \in 0..MaxSentences, i \in 0..MaxSentences, size \in SizeStarts :
    Install(Mounted(n, i, [playbackRate |-> 1, volume |-> 100,
                           webSpeechVoiceURI |-> "vi",
                           sentencesPerChunk |-> size,
                           viewMode |-> "continuous"]))

ChangeChunkSize ==
  \E delta \in SizeDeltas :
    Do(changeChunkSize(BeginWith(World, "changeChunkSize", delta), delta))

NextSize ==
  \/ ChangeChunkSize
  \/ PlayPause

SpecSize == InitSize /\ [][NextSize]_vars

(***************************************************************************)
(* The paginated list on a document long enough to have a second page: the *)
(* index is moved by the controls and by auto-advance, the pages are       *)
(* turned, and the group size is changed once in the settings form.        *)
(***************************************************************************)
PageSentences == 52
ViewSizes == {0, 1, 2}
ViewJumpTargets == {50}
ViewClickIds == {0, 50}

ViewSettings(m) ==
  [playbackRate |-> 1, volume |-> 100, webSpeechVoiceURI |-> "vi",
   sentencesPerChunk |-> 1, viewMode |-> m]

InitPage == Install(Mounted(PageSentences, 0, ViewSettings("paginated")))

ViewJump ==
  \E target \in ViewJumpTargets :
    Do(handleJump(BeginWith(World, "jump", target), target))

ViewChunkClick ==
  \E id \in RenderedIds(World) \cap ViewClickIds :
    Do(ChunkOnClick(BeginWith(World, "chunkClick", id), id))

\* the form is opened, the group size is edited, and it is saved
ViewSession ==
  /\ sessions < MaxSessions
  /\ \E size \in ViewSizes :
       Do(handleSaveSettings([BeginWith(World, "saveSettings", size) EXCEPT
                                !.tempSettings =
                                   [settings EXCEPT !.sentencesPerChunk = size],
                                !.showSettings = TRUE,
                                !.sessions = sessions + 1]))

NextPage ==
  \/ PlayPause
  \/ ViewJump
  \/ ViewChunkClick
  \/ PageChange
  \/ ViewSession
  \/ UtteranceEnd
  \/ DeliverEvent

SpecPage == InitPage /\ [][NextPage]_vars

(***************************************************************************)
(* The continuous list on a document longer than the rendered range: the   *)
(* index is moved by the controls and by auto-advance, and the list is     *)
(* scrolled.                                                               *)
(***************************************************************************)
ScrollSentences == 13

InitScroll == Install(Mounted(ScrollSentences, 0, ViewSettings("continuous")))

\* onScroll is attached to the list in continuous mode
Scroll ==
  /\ settings.viewMode = "continuous"
  /\ \E nearTop \in BOOLEAN, nearBottom \in BOOLEAN :
       /\ nearTop \/ nearBottom
       /\ Do(handleScroll(BeginWith(World, "scroll",
                                    (IF nearTop THEN 1 ELSE 0)
                                      + (IF nearBottom THEN 2 ELSE 0)),
                          nearTop, nearBottom))

NextScroll ==
  \/ PlayPause
  \/ Navigate
  \/ ChunkClick
  \/ Scroll
  \/ ViewSession
  \/ UtteranceEnd
  \/ DeliverEvent

SpecScroll == InitScroll /\ [][NextScroll]_vars

(***************************************************************************)
(* The continuous list with its layout: every chunk is rendered            *)
(* chunkHeight high, the line under the chunks indicatorHeight, the list   *)
(* shows clientHeight of them.  The reader scrolls the list to a position  *)
(* and the scroll event is handled there.                                  *)
(***************************************************************************)
RestoreSentences == 40
RestoreIndexes == {20}
Geometries ==
  {[chunkHeight |-> 60, indicatorHeight |-> 30, clientHeight |-> 600, scrollTop |-> 0],
   [chunkHeight |-> 200, indicatorHeight |-> 30, clientHeight |-> 600, scrollTop |-> 0]}
ScrollPositions == {0, 60, 99, 100, 400, 1000}

\* the largest offset the list can be scrolled to
MaxScrollTop(w) ==
  IF ScrollHeight(w) > w.container.clientHeight
    THEN ScrollHeight(w) - w.container.clientHeight ELSE 0

InitRestore ==
  \E g \in Geometries, i \in RestoreIndexes :
    Install([Mounted(RestoreSentences, i, ViewSettings("continuous"))
               EXCEPT !.container = g])

\* onScroll with e.currentTarget at offset pos
ScrollAt ==
  /\ mounted
  /\ settings.viewMode = "continuous"
  /\ \E pos \in ScrollPositions \cup {MaxScrollTop(World)} :
       /\ pos <= MaxScrollTop(World)
       /\ LET w == [BeginWith(World, "scroll", pos) EXCEPT !.container.scrollTop = pos]
          IN Do(handleScroll(w, pos < 100,
                             ScrollHeight(w) - pos - w.container.clientHeight < 100))

NextRestore == ScrollAt

SpecRestore == InitRestore /\ [][NextRestore]_vars

(***************************************************************************)
(* Closing the Reader: App.handleBack unmounts it while the engine and the *)
(* intervals of the page go on.                                            *)
(***************************************************************************)
Back ==
  /\ mounted
  /\ Do(handleBack(Begin(World, "back")))

InitClose ==
  \E n \in DocSizes, i \in InitialIndexes :
    Install(Mounted(n, i, [playbackRate |-> 1, volume |-> 100,
                           webSpeechVoiceURI |-> "vi",
                           sentencesPerChunk |-> 1,
                           viewMode |-> "continuous"]))

NextClose ==
  \/ PlayPause
  \/ Stop
  \/ Navigate
  \/ Back
  \/ UtteranceEnd
  \/ UtteranceError
  \/ DeliverEvent
  \/ Tick

SpecClose == InitClose /\ [][NextClose]_vars

(***************************************************************************)
(* splitTextIntoChunks on its own: the text and the group size are drawn   *)
(* from the sets below and the function is called on them, more than once. *)
(***************************************************************************)
MaxLen == 4
MaxFragments == 4
MaxCalls == 2

Alphabet == {"a", " ", ".", "!", "?", "\n"}
Fragments ==
  {<<"a", "b", "c", ".">>, <<"a", ".">>, <<".", ".">>, <<" ", "d", "e", "!">>,
   <<"\n">>, <<"x", " ">>}
GroupSizes == {1, 2, 3}

\* "Wait... really?"
EllipsisText ==
  <<"W", "a", "i", "t", ".", ".", ".", " ", "r", "e", "a", "l", "l", "y", "?">>
\* "One. Two. Six. Ten. End."
FiveSentencesText ==
  <<"O", "n", "e", ".", " ", "T", "w", "o", ".", " ", "S", "i", "x", ".", " ",
    "T", "e", "n", ".", " ", "E", "n", "d", ".">>

RECURSIVE Flatten(_)
Flatten(ss) == IF ss = <<>> THEN <<>> ELSE Head(ss) \o Flatten(Tail(ss))

Texts ==
  (UNION {[1..k -> Alphabet] : k \in 0..MaxLen})
    \cup {Flatten(fs) : fs \in UNION {[1..k -> Fragments] : k \in 0..MaxFragments}}
    \cup {EllipsisText, FiveSentencesText}

InitSeg ==
  /\ IdleReader
  /\ IdleSpeech
  /\ IdleGen
  /\ \E text \in Texts, g \in GroupSizes :
       segInput = [text |-> text, sentencesPerChunk |-> g]
  /\ segOutput = <<>>

Segment ==
  /\ Len(segOutput) < MaxCalls
  /\ segOutput' = Append(segOutput, segment(segInput.text, segInput.sentencesPerChunk))
  /\ UNCHANGED <<segInput, readerVars, speech, gen>>

NextSeg == Segment

SpecSeg == InitSeg /\ [][NextSeg]_vars

(***************************************************************************)
(* speakWebSpeech of the subdividing backend on its own: one call on a     *)
(* text, the engine speaking, failing and being cancelled under it.        *)
(***************************************************************************)
SpeechLengths == {5, 200, 201, 999, 1000, 1201}
\* positions (1-based) of the punctuation marks and of the spaces of a text
MarkPositions == {{}, {150}, {200, 201, 380}}
SpacePositions == {{}, {201}, {1, 100, 405}}

SpeechText(n, marks, spaces) ==
  [i \in 1..n |-> IF i \in marks THEN "." ELSE IF i \in spaces THEN " " ELSE "a"]

SpeechTexts ==
  {SpeechText(n, marks, spaces) :
     n \in SpeechLengths, marks \in MarkPositions, spaces \in SpacePositions}

InitSpeech ==
  /\ IdleReader
  /\ IdleSeg
  /\ IdleGen
  /\ \E text \in SpeechTexts : speech = [NoSpeech EXCEPT !.text = text]

Speak ==
  /\ ~speech.called
  /\ \E shouldCancel \in BOOLEAN :
       speech' = speakWebSpeechText(speech, shouldCancel)
  /\ UNCHANGED <<readerVars, segInput, segOutput, gen>>

\* the engine finishes the utterance it is speaking and raises its end event
SpeechEnd ==
  /\ Len(speech.queue) > 0
  /\ speech' = [speech EXCEPT
                  !.queue = Tail(speech.queue),
                  !.finished = Append(speech.finished, Head(speech.queue)),
                  !.events = Append(speech.events,
                                    [kind |-> "end", index |-> Head(speech.queue)])]
  /\ UNCHANGED <<readerVars, segInput, segOutput, gen>>

\* the engine fails on the utterance it is speaking
SpeechError ==
  /\ Len(speech.queue) > 0
  /\ speech' = [speech EXCEPT
                  !.queue = Tail(speech.queue),
                  !.events = Append(speech.events,
                                    [kind |-> "synthesis-failed",
                                     index |-> Head(speech.queue)])]
  /\ UNCHANGED <<readerVars, segInput, segOutput, gen>>

\* stopWebSpeech, called by the page while the call is under way
SpeechCancel ==
  /\ speech.called
  /\ ~speech.cancelled
  /\ speech' = EngineCancel(speech)
  /\ UNCHANGED <<readerVars, segInput, segOutput, gen>>

\* the page dispatches the oldest raised event to utterance.onend / onerror
SpeechDispatch ==
  /\ Len(speech.events) > 0
  /\ LET ev == Head(speech.events)
         sp == [speech EXCEPT !.events = Tail(speech.events)]
     IN speech' = IF ev.kind = "end" THEN UtteranceOnEndOf(sp, ev.index)
                  ELSE UtteranceOnErrorOf(sp, ev.kind)
  /\ UNCHANGED <<readerVars, segInput, segOutput, gen>>

NextSpeech ==
  \/ Speak
  \/ SpeechEnd
  \/ SpeechError
  \/ SpeechCancel
  \/ SpeechDispatch

SpecSpeech == InitSpeech /\ [][NextSpeech]_vars

(***************************************************************************)
(* generateSpeech on its own: one call, the API answering each attempt     *)
(* with audio, without audio, or with an error.                            *)
(***************************************************************************)
ApiKeys == {"", "key"}
GenTexts == {<<>>, <<" ">>, <<"a", "b", "c">>}
Failures ==
  [status : {0, 429, 500, 503}, message : {"other", "overloaded", "503", "429"}]

InitGen ==
  /\ IdleReader
  /\ IdleSeg
  /\ IdleSpeech
  /\ \E apiKey \in ApiKeys, envKey \in ApiKeys, text \in GenTexts :
       gen = [NoGen EXCEPT !.apiKey = apiKey, !.envKey = envKey, !.text = text]

GenerateSpeech ==
  /\ gen.pc = "idle"
  /\ gen' = generateSpeech(gen)
  /\ UNCHANGED <<readerVars, segInput, segOutput, speech>>

\* ai.models.generateContent resolves with audio data
ApiAudio ==
  /\ gen.pc = "calling"
  /\ gen' = [gen EXCEPT !.pc = "returned"]
  /\ UNCHANGED <<readerVars, segInput, segOutput, speech>>

\* ai.models.generateContent resolves without audio data
ApiNoAudio ==
  /\ gen.pc = "calling"
  /\ gen' = OnFailure(gen, NoAudio)
  /\ UNCHANGED <<readerVars, segInput, segOutput, speech>>

\* ai.models.generateContent rejects
ApiError ==
  /\ gen.pc = "calling"
  /\ \E error \in Failures : gen' = OnFailure(gen, error)
  /\ UNCHANGED <<readerVars, segInput, segOutput, speech>>

\* the timer of wait(delay) fires
WaitOver ==
  /\ gen.pc = "waiting"
  /\ gen' = AfterWait(gen)
  /\ UNCHANGED <<readerVars, segInput, segOutput, speech>>

NextGen ==
  \/ GenerateSpeech
  \/ ApiAudio
  \/ ApiNoAudio
  \/ ApiError
  \/ WaitOver

SpecGen == InitGen /\ [][NextGen]_vars

\* the call is made, every request to the API is settled and every timer fires
SpecGenFair == SpecGen /\ WF_vars(NextGen)



(***************************************************************************)
(* Properties                                                              *)
(***************************************************************************)
\* a step that dispatches the oldest raised event
DeliverStep == log'.op = "deliver" /\ Len(eventQueue) > 0

\* the request for the chunk at index i of the chunk sequence cs is the only
\* one queued in the engine
OnlyRequestFor(queue, cs, i) ==
  /\ Len(queue) = 1
  /\ i >= 0 /\ i < Len(cs)
  /\ queue[1].index = i
  /\ queue[1].text = cs[i + 1]

\* the request last handed to the engine is for the chunk at index i of cs
LastRequestFor(queue, cs, i) ==
  /\ Len(queue) > 0
  /\ i >= 0 /\ i < Len(cs)
  /\ queue[Len(queue)].index = i
  /\ queue[Len(queue)].text = cs[i + 1]

\* speak requests issued, not cancelled, whose completion or error has not
\* been delivered: those queued in the engine and those whose event is raised
InFlight ==
  Len(synthQueue)
    + Cardinality({i \in 1..Len(eventQueue) : ~eventQueue[i].superseded})

\* C1: whenever there are chunks, the current chunk index is within
\* [0, chunkCount - 1]
C1_IndexInRange ==
  Len(chunks) > 0 =>
    (currentChunkIndex >= 0 /\ currentChunkIndex <= Len(chunks) - 1)

\* C2: when the completion callback of the request in flight is dispatched:
\* if the current chunk is not the last one the index grows by one, the state
\* is PLAYING and exactly one speak request, for the chunk at the new index,
\* is issued without a cancel; if it is the last one the state becomes IDLE,
\* the index is unchanged and nothing is issued
C2_CompletionAdvances ==
  [][(DeliverStep /\ Head(eventQueue).kind = "end" /\ ~Head(eventQueue).superseded)
       => IF JsLT(currentChunkIndex, Len(chunks) - 1)
            THEN /\ currentChunkIndex' = currentChunkIndex + 1
                 /\ readerState' = "PLAYING"
                 /\ log'.speaks = 1
                 /\ log'.cancels = 0
                 /\ LastRequestFor(synthQueue', chunks', currentChunkIndex')
            ELSE /\ readerState' = "IDLE"
                 /\ currentChunkIndex' = currentChunkIndex
                 /\ log'.speaks = 0]_vars

\* C3: a completion or error callback dispatched for a request that a stop
\* or an explicit play has superseded changes neither the playback state nor
\* the index nor the error message and issues no speak request
C3_LateCallbackIgnored ==
  [][(DeliverStep /\ Head(eventQueue).superseded)
       => /\ readerState' = readerState
          /\ currentChunkIndex' = currentChunkIndex
          /\ errorMsg' = errorMsg
          /\ log'.speaks = 0]_vars

\* C4: at most one speak request is in flight
C4_AtMostOneInFlight == InFlight <= 1

\* C5: stop, in any state, cancels the backend, clears the progress timer,
\* sets the state to IDLE and leaves index, chunks and settings unchanged
C5_StopEffect ==
  [][log'.op = "stop"
       => /\ log'.cancels >= 1
          /\ synthQueue' = <<>>
          /\ progressInterval' = 0
          /\ activeTimers' = {}
          /\ readerState' = "IDLE"
          /\ currentChunkIndex' = currentChunkIndex
          /\ chunks' = chunks
          /\ settings' = settings]_vars

\* stop has acted on a playing reader whose request and timer were running
C5_Witness ==
  /\ log.op = "stop"
  /\ log.from = "PLAYING"
  /\ readerState = "IDLE"
  /\ Len(eventQueue) > 0
  /\ eventQueue[Len(eventQueue)].kind = "interrupted"
  /\ eventQueue[Len(eventQueue)].superseded

\* C6 (as claimed): a stop right after a stop changes nothing of the
\* controller state (state, index, timer, progress, error), and a stop in
\* IDLE with no request in flight changes nothing and raises no error
C6_StopChangesNothingWhenIdle ==
  [][log'.op = "stop"
       => /\ ~log'.thrown
          /\ (log.op = "stop" \/ (readerState = "IDLE" /\ InFlight = 0))
               => UNCHANGED <<readerState, currentChunkIndex, progressInterval,
                              activeTimers, chunkProgress, errorMsg>>]_vars

\* C6 (amended): a stop right after a stop changes nothing of the controller
\* state; a stop in IDLE with no request in flight raises no error and leaves
\* state, index, timer and error message unchanged, and resets the progress
\* shown to 0
C6_StopIdempotent ==
  [][log'.op = "stop"
       => /\ ~log'.thrown
          /\ log.op = "stop"
               => UNCHANGED <<readerState, currentChunkIndex, progressInterval,
                              activeTimers, chunkProgress, errorMsg>>
          /\ (readerState = "IDLE" /\ InFlight = 0)
               => /\ UNCHANGED <<readerState, currentChunkIndex, progressInterval,
                                 activeTimers, errorMsg>>
                  /\ chunkProgress' = 0]_vars

\* stop has acted on an idle reader that showed the last chunk as complete
C6_Witness ==
  /\ log.op = "stop"
  /\ log.from = "IDLE"
  /\ chunkProgress = 0
  /\ Len(chunks) > 0
  /\ currentChunkIndex = Len(chunks) - 1
  /\ synthQueue = <<>>
  /\ eventQueue = <<>>

\* C7: the backend is told to pause only by the play/pause control in state
\* PLAYING, which becomes PAUSED, and to resume only in state PAUSED, which
\* becomes PLAYING; neither changes the index; LOADING is never entered
C7_PauseResume ==
  [][/\ readerState' \in {"IDLE", "PLAYING", "PAUSED"}
     /\ log'.pauses > 0
          => /\ log'.op = "playPause" /\ readerState = "PLAYING"
             /\ log'.pauses = 1 /\ log'.resumes = 0
     /\ log'.resumes > 0
          => /\ log'.op = "playPause" /\ readerState = "PAUSED"
             /\ log'.resumes = 1 /\ log'.pauses = 0
     /\ (log'.op = "playPause" /\ readerState = "PLAYING")
          => /\ readerState' = "PAUSED" /\ log'.pauses = 1
             /\ log'.speaks = 0 /\ log'.cancels = 0
             /\ currentChunkIndex' = currentChunkIndex
     /\ (log'.op = "playPause" /\ readerState = "PAUSED")
          => /\ readerState' = "PLAYING" /\ log'.resumes = 1
             /\ log'.speaks = 0 /\ log'.cancels = 0
             /\ currentChunkIndex' = currentChunkIndex]_vars

\* the control has paused a playing reader
C7_Witness ==
  /\ log.op = "playPause"
  /\ log.from = "PLAYING"
  /\ log.pauses = 1
  /\ readerState = "PAUSED"
  /\ synthPaused

\* clamp(x, 0, count - 1) on the integers
ClampIndex(x, count) == IF x < 0 THEN 0 ELSE IF x > count - 1 THEN count - 1 ELSE x

\* C8: with chunks present, navigate(offset) cancels the request in flight,
\* sets the index to clamp(index + offset, 0, chunkCount - 1) and ends in
\* PLAYING with a speak request in flight for the chunk at the new index
C8_Navigate ==
  [][(log'.op = "navigate" /\ Len(chunks) > 0)
       => /\ log'.cancels >= 1
          /\ currentChunkIndex' = ClampIndex(currentChunkIndex + log'.arg, Len(chunks))
          /\ readerState' = "PLAYING"
          /\ OnlyRequestFor(synthQueue', chunks', currentChunkIndex')]_vars

\* C9: jump(target) with 1 <= target <= chunkCount cancels the previous
\* request, sets the index to target - 1 and plays it; any other target
\* (below 1, above chunkCount, not a number) changes nothing and raises
\* no error
C9_Jump ==
  [][log'.op = "jump"
       => IF ~IsNaN(log'.arg) /\ 1 <= log'.arg /\ log'.arg <= Len(chunks)
            THEN /\ log'.cancels >= 1
                 /\ currentChunkIndex' = log'.arg - 1
                 /\ readerState' = "PLAYING"
                 /\ OnlyRequestFor(synthQueue', chunks', log'.arg - 1)
            ELSE /\ UNCHANGED <<readerState, currentChunkIndex, synthQueue,
                                eventQueue, progressInterval, activeTimers,
                                chunkProgress, errorMsg, chunks>>
                 /\ ~log'.thrown
                 /\ log'.cancels = 0 /\ log'.speaks = 0]_vars

\* a jump to the last of two chunks has acted and its request is queued
C9_Witness ==
  /\ log.op = "jump"
  /\ log.arg = 2
  /\ Len(chunks) = 2
  /\ currentChunkIndex = 1
  /\ readerState = "PLAYING"
  /\ OnlyRequestFor(synthQueue, chunks, 1)

\* C10: an error callback of kind canceled or interrupted leaves state, index
\* and error message unchanged; one of any other kind sets the state to IDLE,
\* surfaces an error, clears the progress timer, leaves index and chunks
\* unchanged and issues no speak request
C10_ErrorCallback ==
  [][(DeliverStep /\ Head(eventQueue).kind # "end")
       => IF Head(eventQueue).kind \in {"canceled", "interrupted"}
            THEN UNCHANGED <<readerState, currentChunkIndex, errorMsg>>
            ELSE /\ readerState' = "IDLE"
                 /\ errorMsg' # NoError
                 /\ progressInterval' = 0
                 /\ activeTimers' = {}
                 /\ currentChunkIndex' = currentChunkIndex
                 /\ chunks' = chunks
                 /\ log'.speaks = 0]_vars

\* a synthesis failure has been dispatched to a playing reader
C10_Witness ==
  /\ log.op = "deliver"
  /\ log.from = "PLAYING"
  /\ errorMsg = "synthesis-failed"
  /\ readerState = "IDLE"
  /\ activeTimers = {}


\* a step that saves the settings form
SaveStep == log'.op = "saveSettings"

\* the playback settings (rate, volume, voice) differ between the two records
PlaybackSettingsDiffer(a, b) ==
  \/ a.playbackRate # b.playbackRate
  \/ a.volume # b.volume
  \/ a.webSpeechVoiceURI # b.webSpeechVoiceURI

\* the request carries the playback settings of st
Carries(req, st) ==
  /\ req.rate = st.playbackRate
  /\ req.volume = st.volume
  /\ req.voiceURI = st.webSpeechVoiceURI

\* C11: a change of playbackRate, volume or voice (group size unchanged)
\* saved while PLAYING cancels the request in flight and issues one speak
\* request for the chunk at the unchanged current index, carrying the new
\* settings; saved while IDLE or PAUSED it issues no speak request and leaves
\* the playback state unchanged
C11_SettingsRestart ==
  [][(/\ SaveStep
      /\ PlaybackSettingsDiffer(settings, settings')
      /\ settings'.sentencesPerChunk = settings.sentencesPerChunk)
       => IF readerState = "PLAYING"
            THEN /\ log'.cancels >= 1
                 /\ log'.speaks = 1
                 /\ currentChunkIndex' = currentChunkIndex
                 /\ readerState' = "PLAYING"
                 /\ OnlyRequestFor(synthQueue', chunks', currentChunkIndex)
                 /\ Carries(synthQueue'[1], settings')
            ELSE /\ log'.speaks = 0
                 /\ readerState' = readerState
                 /\ synthQueue' = synthQueue]_vars

\* offsets handed to navigate on an empty document
AnyOffsets == (-MaxSentences)..MaxSentences

\* the state after a playback command on an empty document: nothing happened
NothingPlayed(w) ==
  /\ w.readerState = "IDLE"
  /\ w.currentChunkIndex = 0
  /\ w.log.speaks = 0
  /\ w.log.timersStarted = 0
  /\ w.activeTimers = {}
  /\ ~w.log.thrown

\* C12: with zero chunks every playback command (play/pause, stop, navigate
\* with any offset, jump with any target) leaves the state IDLE and the index
\* 0, issues no speak request and starts no progress timer
C12_EmptyDocument ==
  Len(chunks) = 0 =>
    /\ NothingPlayed(AfterHandler(handlePlayPause(Begin(World, "playPause"))))
    /\ NothingPlayed(AfterHandler(handleStop(Begin(World, "stop"))))
    /\ \A offset \in AnyOffsets :
         NothingPlayed(AfterHandler(handleNavigate(BeginWith(World, "navigate", offset), offset)))
    /\ \A target \in JumpTargets :
         NothingPlayed(AfterHandler(handleJump(BeginWith(World, "jump", target), target)))


\* the durable pair (index, settings) differs between the step's two states
DurableChange == currentChunkIndex' # currentChunkIndex \/ settings' # settings

\* C13: after every step that changes the current index or a field of the
\* settings, the pair last handed to save is the current (index, settings)
C13_SavedIsCurrent ==
  [][DurableChange
       => savedProgress' = [chunkIndex |-> currentChunkIndex',
                            settings |-> settings']]_vars

\* C14: a step that changes the durable pair (index, settings) calls save
\* exactly once, and a step that leaves it unchanged does not call save
C14_SavedOnce ==
  [][IF DurableChange THEN log'.saves = 1 ELSE log'.saves = 0]_vars


\* clamp(x, lo, hi) on the integers
Clamp(x, lo, hi) == IF x < lo THEN lo ELSE IF x > hi THEN hi ELSE x

\* the index the re-segmentation leaves: count - 1 (0 for no chunks) when the
\* prior index is not below the new count, the prior index otherwise
AfterResegmentation(index, count) ==
  IF index >= count THEN (IF count = 0 THEN 0 ELSE count - 1) ELSE index

\* C15: changeChunkSize(delta) takes newSize = clamp(oldSize + delta, 1, 200);
\* when newSize = oldSize settings, index, chunks and playback state are
\* unchanged; otherwise the group size becomes newSize, the document is
\* segmented again, the playback state is unchanged and the index becomes
\* floor(index * oldSize / newSize), then clamped by the re-segmentation
C15_ChangeGroupSize ==
  [][log'.op = "changeChunkSize"
       => LET oldSize == settings.sentencesPerChunk
              newSize == Clamp(oldSize + log'.arg, 1, 200)
          IN IF newSize = oldSize
               THEN UNCHANGED <<settings, currentChunkIndex, chunks, readerState>>
               ELSE /\ settings' = [settings EXCEPT !.sentencesPerChunk = newSize]
                    /\ chunks' = splitTextIntoChunks(numSentences, newSize)
                    /\ readerState' = readerState
                    /\ currentChunkIndex' =
                         AfterResegmentation((currentChunkIndex * oldSize) \div newSize,
                                             Len(chunks'))]_vars

\* the group size was stepped from 2 to 1 on the second of two chunks, which
\* moved the index to 2
C15_Witness ==
  /\ log.op = "changeChunkSize"
  /\ log.arg = -1
  /\ settings.sentencesPerChunk = 1
  /\ Len(chunks) = 3
  /\ currentChunkIndex = 2


\* C16: a re-segmentation (the chunks effect run for a new source text or a
\* new group size) whose chunk count is not above the prior index (a number)
\* sets the index to count - 1, or to 0 when count is 0; one whose chunk count
\* is above the prior index leaves the index unchanged
C16_ResegmentationClamp ==
  \A size \in ExploredSizes, newText \in BOOLEAN :
    (newText \/ size # settings.sentencesPerChunk) =>
      LET r == [World EXCEPT !.settings.sentencesPerChunk = size]
          w == ChunksEffect(r, World, r, newText)
      IN /\ w.chunks = splitTextIntoChunks(numSentences, size)
         /\ ~IsNaN(currentChunkIndex) =>
              w.currentChunkIndex = AfterResegmentation(currentChunkIndex, Len(w.chunks))

\* the Reader was mounted on a stored index beyond the last chunk: the index
\* effect ran a second time (third save) for the clamped index
C16_Witness ==
  /\ log.op = "mount"
  /\ log.saves = 3
  /\ Len(chunks) = 2
  /\ currentChunkIndex = 1


\* a step that dispatches the end event of a request that was not superseded
CompletionStep ==
  DeliverStep /\ Head(eventQueue).kind = "end" /\ ~Head(eventQueue).superseded

\* C17: a tick never raises the progress above 95; the progress reaches 100
\* only in the step that dispatches the completion of the chunk in flight; and
\* right after that step the progress is 100, for a last and a non-last chunk
C17_ProgressBound ==
  [][/\ log'.op = "tick" =>
          (chunkProgress' <= 95 \/ chunkProgress' = chunkProgress)
     /\ (chunkProgress' = 100 /\ chunkProgress # 100) => CompletionStep
     /\ CompletionStep => chunkProgress' = 100]_vars

\* the timer t was started for the request in flight: the one being spoken,
\* or the one whose event is raised and not yet dispatched
TimerIsCurrent(t) ==
  \/ Len(synthQueue) > 0 /\ t.text = synthQueue[1].text
  \/ \E i \in 1..Len(eventQueue) :
       /\ ~eventQueue[i].superseded
       /\ eventQueue[i].kind = "end" => eventQueue[i].req.text = t.text

\* C18: in state PAUSED or IDLE no progress timer is active, and every active
\* timer (whose ticks update the progress) is the one of the chunk being spoken
C18_TimerCleared ==
  /\ readerState \in {"PAUSED", "IDLE"} => activeTimers = {}
  /\ \A t \in activeTimers : TimerIsCurrent(t)

\* C19: at most one progress timer is active, and an active timer is the one
\* the controller references
C19_OneTimer ==
  /\ Cardinality(activeTimers) <= 1
  /\ \A t \in activeTimers : t.id = progressInterval

\* a timer was started by an auto-advance continuation, after the timer of
\* the completed chunk was cleared
C19_Witness ==
  /\ log.op = "deliver"
  /\ log.timersStarted = 1
  /\ Cardinality(activeTimers) = 1
  /\ readerState = "PLAYING"

\* C20: in continuous mode 0 <= start <= index <= end <= count, and with
\* chunks present the current index lies in [start, end)
C20_WindowBounds ==
  settings.viewMode = "continuous" =>
    /\ ~IsNaN(visibleRange.start) /\ ~IsNaN(visibleRange.end)
    /\ ~IsNaN(currentChunkIndex)
    /\ 0 <= visibleRange.start
    /\ visibleRange.start <= currentChunkIndex
    /\ currentChunkIndex <= visibleRange.end
    /\ visibleRange.end <= Len(chunks)
    /\ Len(chunks) > 0 => currentChunkIndex < visibleRange.end


\* the index is a chunk index or the chunk count: a number
IndexIsNumber == ~IsNaN(currentChunkIndex) /\ IsFinite(currentChunkIndex)

\* C21: right after a step that changes the current index the continuous
\* range is [max(0, index - 5), min(count, index + 6)) and the current page is
\* floor(index / 50), so that the chunk at the index is rendered in the mode
\* in use
C21_ViewFollowsIndex ==
  [][currentChunkIndex' # currentChunkIndex
       => /\ visibleRange'.start = Clamp(currentChunkIndex' - 5, 0, currentChunkIndex')
          /\ visibleRange'.end =
               (IF currentChunkIndex' + 6 > Len(chunks') THEN Len(chunks')
                ELSE currentChunkIndex' + 6)
          /\ currentPage' = currentChunkIndex' \div ITEMS_PER_PAGE
          /\ Len(chunks') > 0 => currentChunkIndex' \in RenderedIds(World')]_vars


\* the last step was a scroll near the top (arg 1), near the bottom (arg 2)
\* or both (arg 3)
ScrolledNearTop == log'.op = "scroll" /\ log'.arg \in {1, 3}
ScrolledNearBottom == log'.op = "scroll" /\ log'.arg \in {2, 3}

totalPages == (Len(chunks) + ITEMS_PER_PAGE - 1) \div ITEMS_PER_PAGE

\* C23: in paginated mode with a non-empty document the current page is a
\* page of the document: 0 <= page < ceil(count / 50)
C23_PageInRange ==
  (settings.viewMode = "paginated" /\ Len(chunks) > 0)
    => (~IsNaN(currentPage) /\ currentPage >= 0 /\ currentPage < totalPages)

\* C24: the page changes only through the previous / next page buttons; in
\* particular a step that advances the index on completion leaves it alone
C24_PageChangesOnlyManually ==
  [][currentPage' # currentPage => log'.op = "pageChange"]_vars

\* C24 as the code has it: when the page changes, either a previous / next
\* page button has moved it by one inside the document and left the index
\* alone, or it has become floor(index / 50) of the index after the step
C24_PageFollowsIndexOrButtons ==
  [][currentPage' # currentPage
       => \/ /\ log'.op = "pageChange"
             /\ currentPage' \in {currentPage - 1, currentPage + 1}
             /\ currentPage' >= 0 /\ currentPage' < totalPages
             /\ UNCHANGED currentChunkIndex
          \/ currentPage' = JsFloorDiv(currentChunkIndex', ITEMS_PER_PAGE)]_vars

\* completion of chunk 49 has advanced the index to chunk 50 and the page
\* from 0 to 1
C24_Witness ==
  /\ log.op = "deliver"
  /\ log.speaks = 1
  /\ currentChunkIndex = ITEMS_PER_PAGE
  /\ currentPage = 1


(***************************************************************************)
(* Properties of splitTextIntoChunks                                       *)
(***************************************************************************)
Called == Len(segOutput) > 0
Returned == segOutput[1]

\* the text between its first and its last character that is not white space
NonBlank(str) == {i \in 1..Len(str) : str[i] \notin {" ", "\n"}}
Stripped(str) ==
  IF NonBlank(str) = {} THEN <<>>
  ELSE SubSeq(str,
              CHOOSE i \in NonBlank(str) : \A j \in NonBlank(str) : i <= j,
              CHOOSE i \in NonBlank(str) : \A j \in NonBlank(str) : i >= j)

\* the sentences joined by single spaces
RECURSIVE SpaceJoined(_)
SpaceJoined(ss) ==
  IF ss = <<>> THEN <<>>
  ELSE IF Len(ss) = 1 THEN ss[1]
  ELSE ss[1] \o <<" ">> \o SpaceJoined(Tail(ss))

HasNoDelimiter(str) == \A i \in 1..Len(str) : str[i] \notin {".", "!", "?", "\n"}

C26_IdsAndTexts ==
  Called => \A i \in 1..Len(Returned) :
              /\ Returned[i].id = i - 1
              /\ Returned[i].text # <<>>

C26_Witness == Called /\ Len(Returned) >= 3

\* C27: every sentence before grouping has at least 3 characters after
\* trimming
C27_NoShortSentence ==
  Called => \A i \in 1..Len(Sentences(segInput.text)) :
              Len(Stripped(Sentences(segInput.text)[i])) >= 3

\* C27 as the code has it: a sentence before grouping has at least 3
\* characters after trimming, unless it is the only sentence and is the whole
\* trimmed text, which has fewer than 3 characters
C27_ShortOnlyWhenWholeText ==
  Called => \A i \in 1..Len(Sentences(segInput.text)) :
              \/ Len(Stripped(Sentences(segInput.text)[i])) >= 3
              \/ /\ Len(Sentences(segInput.text)) = 1
                 /\ Sentences(segInput.text)[1] = Stripped(segInput.text)

\* a remainder of one or two characters was appended to the sentence before it
C27_Witness ==
  /\ Called
  /\ Len(Scan(segInput.text).sentences) >= 1
  /\ Len(Stripped(Scan(segInput.text).buffer)) \in {1, 2}
  /\ Len(Sentences(segInput.text)) = Len(Scan(segInput.text).sentences)

\* the character at position i is '!', '?', a newline, or a '.' with no '.'
\* next to it
EndsSentence(str, i) ==
  \/ str[i] \in {"!", "?", "\n"}
  \/ /\ str[i] = "."
     /\ i > 1 => str[i - 1] # "."
     /\ i < Len(str) => str[i + 1] # "."

\* C28: every character a sentence ends on is '!', '?', a newline or a '.'
\* with no '.' next to it, and "Wait... really?" with group size 1 gives one
\* chunk with that text
C28_Delimiters ==
  Called =>
    /\ \A i \in Scan(segInput.text).cuts : EndsSentence(segInput.text, i)
    /\ (segInput.text = EllipsisText /\ segInput.sentencesPerChunk = 1)
         => Returned = <<[id |-> 0, text |-> EllipsisText]>>

C28_Witness ==
  /\ Called
  /\ segInput.text = EllipsisText
  /\ segInput.sentencesPerChunk = 1
  /\ Scan(segInput.text).cuts # {}

\* C29: S >= 1 sentences and group size g give ceil(S / g) chunks, chunk k
\* being sentences (k-1)g+1 .. min(kg, S) joined by spaces; five sentences
\* with g = 2 give chunks of 2, 2 and 1 sentences
C29_Grouping ==
  Called =>
    LET ss == Sentences(segInput.text)
        g == segInput.sentencesPerChunk
    IN /\ Len(ss) >= 1 =>
            /\ Len(Returned) = (Len(ss) + g - 1) \div g
            /\ \A k \in 1..Len(Returned) :
                 Returned[k].text =
                   SpaceJoined(SubSeq(ss, (k - 1) * g + 1,
                                      IF k * g < Len(ss) THEN k * g ELSE Len(ss)))
       /\ segInput.text = FiveSentencesText => Len(ss) = 5

C29_Witness ==
  /\ Called
  /\ segInput.text = FiveSentencesText
  /\ segInput.sentencesPerChunk = 2
  /\ Len(Returned) = 3

\* C30: a non-empty text without '.', '!', '?' and newline gives exactly one
\* chunk, with id 0, whose text is the whole text
C30_WholeText ==
  (Called /\ segInput.text # <<>> /\ HasNoDelimiter(segInput.text))
    => Returned = <<[id |-> 0, text |-> segInput.text]>>

\* C30 as the code has it: a text without '.', '!', '?' and newline gives one
\* chunk, with id 0, whose text is the trimmed text, and no chunk when it
\* consists of spaces only
C30_TrimmedText ==
  (Called /\ HasNoDelimiter(segInput.text))
    => Returned = (IF Stripped(segInput.text) = <<>> THEN <<>>
                   ELSE <<[id |-> 0, text |-> Stripped(segInput.text)]>>)

\* a text without delimiters, with a space at an end, has given one chunk
C30_Witness ==
  /\ Called
  /\ HasNoDelimiter(segInput.text)
  /\ Stripped(segInput.text) # segInput.text
  /\ Len(Returned) = 1


(***************************************************************************)
(* Properties of the requests, the settings form and the list              *)
(***************************************************************************)
\* C32: every speak request issued by a step carries the playbackRate, the
\* volume and the voice of the settings as they are after that step, whether
\* the step is a play, a settings restart or an auto-advance
C32_RequestCarriesSettings ==
  [][(log'.speaks > 0 /\ Len(synthQueue') > 0)
       => Carries(synthQueue'[Len(synthQueue')], settings')]_vars

\* C33: whenever the state is PLAYING, a request queued in the engine is for
\* the chunk at the current index of the current chunk sequence
C33_RequestIsCurrentChunk ==
  (readerState = "PLAYING" /\ Len(synthQueue) > 0)
    => /\ currentChunkIndex >= 0 /\ currentChunkIndex < Len(chunks)
       /\ \A i \in 1..Len(synthQueue) :
            synthQueue[i].text = chunks[currentChunkIndex + 1]

\* C34: the committed group size is an integer within [1, 200]
C34_GroupSizeInBounds ==
  settings.sentencesPerChunk \in 1..200


\* the characters of str that are not white space, in order
IsInk(c) == c \notin {" ", "\n"}
Ink(str) == SelectSeq(str, IsInk)

\* the texts of the chunks one after the other
RECURSIVE ChunkTexts(_)
ChunkTexts(cs) == IF cs = <<>> THEN <<>> ELSE Head(cs).text \o ChunkTexts(Tail(cs))

\* C37: the characters other than white space of the chunk texts, taken in id
\* order, are those of the input text in the same order
C37_NoContentLost ==
  Called => Ink(ChunkTexts(Returned)) = Ink(segInput.text)

\* a text of several chunks whose short tail was appended to the last sentence
C37_Witness ==
  /\ Called
  /\ Len(Returned) >= 2
  /\ Len(Stripped(Scan(segInput.text).buffer)) \in {1, 2}
  /\ Ink(ChunkTexts(Returned)) # <<>>


(***************************************************************************)
(* Properties of the subdividing backend                                   *)
(***************************************************************************)
OnEndStep == speech'.onEndCalls > speech.onEndCalls

\* the sub-units of the call, or the text spoken directly, in order
AllUnits ==
  IF Len(speech.units) = 0 THEN <<-1>>
  ELSE [i \in 1..Len(speech.units) |-> i - 1]

\* C31: onEnd is invoked at most once per call, only when every sub-unit has
\* been spoken in order, and never after onError was invoked or the call was
\* cancelled
C31_OnEndOnce ==
  [][OnEndStep
       => /\ speech'.onEndCalls = 1
          /\ speech.finished = AllUnits
          /\ speech.onErrorCalls = 0
          /\ ~speech.cancelled]_vars

\* C36: every utterance handed to the engine has at most 200 characters
C36_UtteranceLength ==
  \A i \in 1..Len(speech.handed) : speech.handed[i] <= 200


(***************************************************************************)
(* Properties of generateSpeech                                            *)
(***************************************************************************)
GenDone == gen.pc \in {"returned", "thrown"}

\* the failure says 503 or 429, in its status or in its message, or says
\* that the model is overloaded
RetryableFailure(error) ==
  \/ error.status \in {503, 429}
  \/ error.message \in {"503", "429", "overloaded"}

\* the API has answered an attempt with a failure
FailureStep == gen.pc = "calling" /\ gen'.lastError # gen.lastError

C35_RestoresByAddedAbove ==
  [][(log'.op = "scroll" /\ JsLT(visibleRange'.start, visibleRange.start))
       => container'.scrollTop
            = log'.arg + (visibleRange.start - visibleRange'.start)
                           * container.chunkHeight]_vars

\* C38: once the Reader is closed no interval runs, the engine holds no
\* utterance and no step saves progress.
C38_ClosedIsQuiet ==
  ~mounted => /\ activeTimers = {}
              /\ Len(synthQueue) = 0
              /\ log.saves = 0

====
